---- MODULE Spec2Model ----
(***************************************************************************)
(* A model of the zksync-telemetry crate: the consent record on disk       *)
(* (config.rs), the interactivity test (utils.rs), the credential          *)
(* validation (keys.rs) and the Telemetry facade (telemetry.rs).           *)
(*                                                                         *)
(* An Option<T> is a sequence of length at most one.                        *)
(***************************************************************************)
EXTENDS Integers, Sequences, FiniteSets, TLC

VARIABLES
    env,        \* the process environment: build flavour, terminals, CI variables
    fs,         \* the file system: for every path its parent directory and file
    uuidCtr,    \* how many UUIDs uuid::Uuid::new_v4 has handed out
    clock,      \* the last value chrono::Utc::now returned
    cfg,        \* per process: the TelemetryConfig the caller holds (Option)
    tel,        \* per process: the Telemetry facade the caller holds (Option)
    hist,       \* per process: the call that returned last
    pc,         \* per process: position inside a call that persists step by step
    io,         \* per process: the open file of that call (path, record, offset)
    calls,      \* how many calls of the crate's API have been made
    lastDone,   \* the process whose write of a record finished last (0: none)
    kin,        \* key provider: the pair of optional strings under validation
    kout        \* key provider: the outcomes of with_keys and of new

vars == <<env, fs, uuidCtr, clock, cfg, tel, hist, pc, io, calls, lastDone, kin, kout>>

----------------------------------------------------------------------------
(* Option<T> *)

None == <<>>
Some(x) == <<x>>
IsSome(o) == Len(o) = 1
Unwrap(o) == o[1]

----------------------------------------------------------------------------
(* Strings: str::starts_with, str::contains, str::trim, str::to_lowercase.  *)
(* A string is a TLA+ string; Len, SubSeq and \o act on its characters.    *)

Whitespace == {" ", "\t", "\n"}

CharAt(s, i) == SubSeq(s, i, i)

StartsWith(s, prefix) ==
    /\ Len(s) >= Len(prefix)
    /\ SubSeq(s, 1, Len(prefix)) = prefix

Contains(s, sub) ==
    \E i \in 1..(Len(s) - Len(sub) + 1) : SubSeq(s, i, i + Len(sub) - 1) = sub

RECURSIVE TrimStart(_)
TrimStart(s) ==
    IF Len(s) > 0 /\ CharAt(s, 1) \in Whitespace
    THEN TrimStart(SubSeq(s, 2, Len(s)))
    ELSE s

RECURSIVE TrimEnd(_)
TrimEnd(s) ==
    IF Len(s) > 0 /\ CharAt(s, Len(s)) \in Whitespace
    THEN TrimEnd(SubSeq(s, 1, Len(s) - 1))
    ELSE s

Trim(s) == TrimEnd(TrimStart(s))

LowerChar(c) ==
    CASE c = "Y" -> "y"
      [] c = "N" -> "n"
      [] c = "E" -> "e"
      [] c = "S" -> "s"
      [] c = "O" -> "o"
      [] OTHER -> c

RECURSIVE ToLowercase(_)
ToLowercase(s) ==
    IF Len(s) = 0 THEN ""
    ELSE LowerChar(CharAt(s, 1)) \o ToLowercase(SubSeq(s, 2, Len(s)))

----------------------------------------------------------------------------
(* keys.rs: TelemetryKeys                                                  *)

ConfigError == "ConfigError"
SendError == "SendError"
Ok == "Ok"

\* A TelemetryResult<TelemetryKeys>: Ok with the two optional credentials, or Err.
KeysOk(p, s) == [ret |-> Ok, posthog_key |-> p, sentry_dsn |-> s]
KeysErr == [ret |-> ConfigError, posthog_key |-> None, sentry_dsn |-> None]

\* The predicates the two validations apply to a present value.
ValidPosthogKey(key) == StartsWith(key, "phc_")
ValidSentryDsn(dsn) == StartsWith(dsn, "http") /\ Contains(dsn, "@sentry.io")

\* get_posthog_key on the value of ANVIL_POSTHOG_KEY (an Option: unset is None).
\* Returns [ret, val].
get_posthog_key(v) ==
    IF IsSome(v) /\ Trim(Unwrap(v)) # ""
    THEN IF ~ValidPosthogKey(Unwrap(v))
         THEN [ret |-> ConfigError, val |-> None]
         ELSE [ret |-> Ok, val |-> Some(Unwrap(v))]
    ELSE [ret |-> Ok, val |-> None]

get_sentry_dsn(v) ==
    IF IsSome(v) /\ Trim(Unwrap(v)) # ""
    THEN IF ~ValidSentryDsn(Unwrap(v))
         THEN [ret |-> ConfigError, val |-> None]
         ELSE [ret |-> Ok, val |-> Some(Unwrap(v))]
    ELSE [ret |-> Ok, val |-> None]

\* TelemetryKeys::new with ANVIL_POSTHOG_KEY = p and ANVIL_SENTRY_DSN = s.
TelemetryKeys_new(p, s) ==
    LET k == get_posthog_key(p)
        d == get_sentry_dsn(s)
    IN  IF k.ret # Ok THEN KeysErr
        ELSE IF d.ret # Ok THEN KeysErr
        ELSE KeysOk(k.val, d.val)

\* TelemetryKeys::with_keys(p, s).
with_keys(p, s) ==
    IF IsSome(p) /\ ~ValidPosthogKey(Unwrap(p)) THEN KeysErr
    ELSE IF IsSome(s) /\ ~ValidSentryDsn(Unwrap(s)) THEN KeysErr
    ELSE KeysOk(p, s)

----------------------------------------------------------------------------
(* Bounds of the model                                                     *)

\* UUIDs that uuid::Uuid::new_v4 may hand out in one behaviour.
MaxIds == 2
\* The readings of chrono::Utc::now are 0..MaxClock.
MaxClock == 1
\* The concurrent processes of the race specification.
NumProcs == 2
\* The calls of the crate's API in one behaviour.
MaxCalls == 3

Procs == 1..NumProcs

----------------------------------------------------------------------------
(* utils.rs: is_interactive, is_ci_environment, prompt_yes_no              *)

\* The variables is_ci_environment reads, and one it does not read.
CIVars == {"CI", "CONTINUOUS_INTEGRATION", "BUILD_NUMBER", "GITHUB_ACTIONS",
           "TEAMCITY_VERSION", "TRAVIS"}
EnvNames == CIVars \cup {"JENKINS_URL"}

\* An environment variable is unset, set to valid Unicode, or set to a value
\* that is not valid Unicode.  std::env::var(name).is_ok() only in the second.
EnvVarIsOk(e, name) == e.vars[name] = "unicode"

is_ci_environment(e) ==
    \/ EnvVarIsOk(e, "CI")
    \/ EnvVarIsOk(e, "CONTINUOUS_INTEGRATION")
    \/ EnvVarIsOk(e, "BUILD_NUMBER")
    \/ EnvVarIsOk(e, "GITHUB_ACTIONS")
    \/ EnvVarIsOk(e, "TEAMCITY_VERSION")
    \/ EnvVarIsOk(e, "TRAVIS")

is_interactive(e) ==
    IF e.cfg_test THEN FALSE
    ELSE e.stdin_tty /\ e.stdout_tty /\ ~is_ci_environment(e)

\* prompt_yes_no on what read_line gives: Some(line), or None for an I/O error.
prompt_yes_no(input) ==
    IF IsSome(input)
    THEN StartsWith(ToLowercase(Trim(Unwrap(input))), "y")
    ELSE FALSE

\* What the operator may type at the prompt (an empty line is end of input).
Answers == {Some("y\n"), Some("Yes\n"), Some("  YES \n"), Some("n\n"),
            Some("no, yes\n"), Some("\n"), Some(""), None}

NoVars == [v \in EnvNames |-> "unset"]
BaseEnv == [cfg_test |-> FALSE, stdin_tty |-> TRUE, stdout_tty |-> TRUE,
            home |-> TRUE, vars |-> NoVars]

\* The environments a behaviour may start in: a terminal session, a test
\* build, redirected input or output, a session without a home directory, and
\* a terminal session with one variable set (to Unicode or not).
EnvSamples ==
    {BaseEnv,
     [BaseEnv EXCEPT !.cfg_test = TRUE],
     [BaseEnv EXCEPT !.stdin_tty = FALSE],
     [BaseEnv EXCEPT !.stdout_tty = FALSE],
     [BaseEnv EXCEPT !.home = FALSE]}
    \cup {[BaseEnv EXCEPT !.vars = [NoVars EXCEPT ![v] = "unicode"]] : v \in EnvNames}
    \cup {[BaseEnv EXCEPT !.vars = [NoVars EXCEPT ![v] = "notunicode"]] :
             v \in {"CI", "TRAVIS"}}

----------------------------------------------------------------------------
(* The record and its JSON document                                        *)

AppNames == {"anvil"}
CustomPath == "/tmp/t/telemetry.json"
CustomPaths == {None, Some(CustomPath)}

\* directories::ProjectDirs::from("com", "matter-labs", app).config_dir()
config_dir(app) == "~/.config/" \o app

\* TelemetryConfig::get_config_path
get_config_path(app_name, custom_path) ==
    IF IsSome(custom_path) THEN Unwrap(custom_path)
    ELSE config_dir(app_name) \o "/telemetry.json"

Paths == {get_config_path(a, c) : a \in AppNames, c \in CustomPaths}

\* uuid::Uuid::new_v4().to_string(): the n-th UUID handed out.
Uuid(n) == "uuid-" \o ToString(n)

TelemetryConfig(enabled, instance_id, created_at, config_path) ==
    [enabled |-> enabled, instance_id |-> instance_id,
     created_at |-> created_at, config_path |-> config_path]

\* A JSON document is the sequence of tokens the serializer writes, one
\* write call each: the braces and one token per field.
Tok(k, v) == [k |-> k, v |-> v]
Nul == Tok("NUL", "")

JsonBool(b) == IF b THEN "true" ELSE "false"
JsonString(s) == "'" \o s \o "'"
JsonTime(t) == JsonString("1970-01-01T00:00:0" \o ToString(t) \o "Z")
JsonOptPath(o) == IF IsSome(o) THEN JsonString(Unwrap(o)) ELSE "null"

\* serde_json::to_writer_pretty(file, &config): the fields in declaration order.
Serialize(c) ==
    << Tok("{", ""),
       Tok("enabled", JsonBool(c.enabled)),
       Tok("instance_id", JsonString(c.instance_id)),
       Tok("created_at", JsonTime(c.created_at)),
       Tok("config_path", JsonOptPath(c.config_path)),
       Tok("}", "") >>

IsJsonString(v) ==
    Len(v) >= 2 /\ CharAt(v, 1) = "'" /\ CharAt(v, Len(v)) = "'"
UnJsonString(v) == SubSeq(v, 2, Len(v) - 1)
IsJsonTime(v) == \E t \in 0..MaxClock : JsonTime(t) = v
UnJsonTime(v) == CHOOSE t \in 0..MaxClock : JsonTime(t) = v

\* The value of field k in document d (the field is there exactly once).
Field(d, k) == d[CHOOSE i \in 1..Len(d) : d[i].k = k].v
Count(d, k) == Cardinality({i \in 1..Len(d) : d[i].k = k})

\* serde_json::from_reader::<TelemetryConfig>: an object whose fields come in
\* any order, none twice, with enabled, instance_id and created_at present and
\* well typed; a missing config_path is None; other fields are ignored.
ParseOk(d) ==
    /\ Len(d) >= 2
    /\ d[1] = Tok("{", "")
    /\ d[Len(d)] = Tok("}", "")
    /\ \A i \in 2..(Len(d) - 1) : d[i].k \notin {"{", "}", "NUL"}
    /\ \A k \in {"enabled", "instance_id", "created_at"} : Count(d, k) = 1
    /\ Count(d, "config_path") <= 1
    /\ Field(d, "enabled") \in {"true", "false"}
    /\ IsJsonString(Field(d, "instance_id"))
    /\ IsJsonTime(Field(d, "created_at"))
    /\ Count(d, "config_path") = 1 =>
           \/ Field(d, "config_path") = "null"
           \/ IsJsonString(Field(d, "config_path"))

Parse(d) ==
    TelemetryConfig(
        Field(d, "enabled") = "true",
        UnJsonString(Field(d, "instance_id")),
        UnJsonTime(Field(d, "created_at")),
        IF Count(d, "config_path") = 1 /\ Field(d, "config_path") # "null"
        THEN Some(UnJsonString(Field(d, "config_path")))
        ELSE None)

----------------------------------------------------------------------------
(* The file system                                                         *)

\* fs[path] = [dir, file]: the state of the parent directory of path
\* ("exists"; "missing": create_dir_all can create it; "uncreatable": it
\* cannot) and the file at path, an Option of [mode, content]; mode "locked"
\* is a file the process may neither read nor write.
NoFile(dir) == [dir |-> dir, file |-> None]
FileOf(mode, content) ==
    [dir |-> "exists", file |-> Some([mode |-> mode, content |-> content])]

\* Path::exists
Exists(e) == IsSome(e.file)
\* std::fs::File::open succeeds
CanOpen(e) == IsSome(e.file) /\ Unwrap(e.file).mode = "rw"
Content(e) == Unwrap(e.file).content
\* std::fs::create_dir_all(parent) succeeds
CanCreateDir(e) == e.dir # "uncreatable"
CreateDirAll(e) == [e EXCEPT !.dir = "exists"]
\* std::fs::File::create succeeds: the directory is there, the file is new or writable
CanCreate(e) == e.dir = "exists" /\ (IsSome(e.file) => Unwrap(e.file).mode = "rw")
\* std::fs::File::create: the file is there and empty (O_CREAT | O_TRUNC)
FileCreate(e) == FileOf("rw", <<>>)

\* write(2) of one token at offset off (counted in tokens) of a file opened
\* without O_APPEND: a gap left by a truncation reads as NUL.
WriteAt(content, off, tok) ==
    LET n == IF Len(content) > off + 1 THEN Len(content) ELSE off + 1
    IN  [i \in 1..n |->
            IF i = off + 1 THEN tok
            ELSE IF i <= Len(content) THEN content[i]
            ELSE Nul]

FileWrite(e, off, tok) ==
    [e EXCEPT !.file = Some([mode |-> "rw",
                             content |-> WriteAt(Content(e), off, tok)])]

Garbage == << Tok("{", ""), Tok("enabled", "maybe") >>

\* A record an earlier run left at path.
OldRecord(enabled, config_path) == TelemetryConfig(enabled, "uuid-0", 0, config_path)

\* The states a path may be in when a behaviour starts.
FsSamples(path) ==
    {NoFile("exists"), NoFile("missing"), NoFile("uncreatable"),
     FileOf("rw", Garbage),
     FileOf("rw", <<>>),
     FileOf("locked", Serialize(OldRecord(TRUE, Some(path)))),
     FileOf("rw", Serialize(OldRecord(TRUE, Some(path)))),
     FileOf("rw", Serialize(OldRecord(FALSE, Some(path)))),
     FileOf("rw", Serialize(OldRecord(TRUE, None)))}

----------------------------------------------------------------------------
(* config.rs: TelemetryConfig::new and update_consent                      *)

\* NewBranch with a file that cannot be loaded treated as no file.
NewBranch_RegenerateBadFile(e, en) ==
    IF Exists(e) /\ CanOpen(e) /\ ParseOk(Content(e)) THEN "load"
    ELSE IF ~is_interactive(en) THEN "default"
    ELSE "prompt"

\* The three ways through TelemetryConfig::new.
NewBranch(e, en) ==
    IF Exists(e) THEN "load"
    ELSE IF ~is_interactive(en) THEN "default"
    ELSE "prompt"

\* The existing file is opened and parsed: [ret, rec].
LoadResult(e) ==
    IF ~CanOpen(e) THEN [ret |-> ConfigError, rec |-> None]
    ELSE IF ~ParseOk(Content(e)) THEN [ret |-> ConfigError, rec |-> None]
    ELSE [ret |-> Ok, rec |-> Some(Parse(Content(e)))]

\* sentry::init((dsn, options)) panics unless the string parses as a DSN,
\* scheme://public_key@host/project with scheme http or https.
DsnParses(dsn) ==
    /\ StartsWith(dsn, "http://") \/ StartsWith(dsn, "https://")
    /\ Contains(dsn, "@")

\* Clients without the test of config.enabled.
Clients_IgnoreConsent(config, posthog_key, sentry_dsn) ==
    [posthog |-> IF IsSome(posthog_key) THEN posthog_key ELSE None,
     sentry_guard |-> IF IsSome(sentry_dsn) THEN sentry_dsn ELSE None,
     panic |-> IsSome(sentry_dsn) /\ ~DsnParses(Unwrap(sentry_dsn))]

\* telemetry.rs: the two clients Telemetry::new builds for a record: each is
\* the credential it was built from, or None.
Clients(config, posthog_key, sentry_dsn) ==
    IF config.enabled
    THEN [posthog |-> IF IsSome(posthog_key) THEN posthog_key ELSE None,
          sentry_guard |-> IF IsSome(sentry_dsn) THEN sentry_dsn ELSE None,
          panic |-> IsSome(sentry_dsn) /\ ~DsnParses(Unwrap(sentry_dsn))]
    ELSE [posthog |-> None, sentry_guard |-> None, panic |-> FALSE]

\* The call a process is in: nothing while it is idle.
IdleIo == [op |-> "none", path |-> "", rec |-> None, off |-> 0,
           prompted |-> FALSE, key |-> None, dsn |-> None, e |-> FALSE,
           pre |-> "absent"]

\* What a call finds at its path: no file, a file it cannot open, a file
\* that does not parse, or a record.
FileKind(e) ==
    IF ~Exists(e) THEN "absent"
    ELSE IF ~CanOpen(e) THEN "locked"
    ELSE IF ~ParseOk(Content(e)) THEN "invalid"
    ELSE "valid"

\* The record of a call that returned: the call (op, path, e, key, dsn), what
\* it found at the path (pre), its result (ret, rec), whether it read the
\* answer to the prompt, what it forwarded (fwd) from a facade that was
\* enabled or not (on).  seq tells one call from the next; after is
\* Some([path, e]) when the call before it was an update_consent(e) that
\* returned Ok on a record with that path.
NoCall == [op |-> "none", path |-> "", ret |-> "", rec |-> None,
           prompted |-> FALSE, fwd |-> "none", key |-> None, dsn |-> None,
           e |-> FALSE, on |-> FALSE, pre |-> "absent", seq |-> 0,
           after |-> None]

CallRecord(c, ret, rec) ==
    [NoCall EXCEPT !.op = c.op, !.path = c.path, !.ret = ret, !.rec = rec,
                   !.prompted = c.prompted, !.key = c.key, !.dsn = c.dsn,
                   !.e = c.e, !.pre = c.pre]

After(h) ==
    IF h.op = "update" /\ h.ret = Ok /\ h.path # ""
    THEN Some([path |-> h.path, e |-> h.e])
    ELSE None

\* Process p's call returns: h is its record.
Return(p, h, newCfg, newTel) ==
    /\ hist' = [hist EXCEPT ![p] =
                  [h EXCEPT !.seq = 1 - hist[p].seq, !.after = After(hist[p])]]
    /\ cfg' = [cfg EXCEPT ![p] = newCfg]
    /\ tel' = [tel EXCEPT ![p] = newTel]
    /\ pc' = [pc EXCEPT ![p] = "idle"]
    /\ io' = [io EXCEPT ![p] = IdleIo]

\* TelemetryConfig::new returns res = [ret, rec] inside call c: to its caller
\* (op "new"), or to Telemetry::new (op "telemetry"), which builds the facade.
NewReturn(p, c, res) ==
    IF c.op = "new"
    THEN Return(p, CallRecord(c, res.ret, res.rec),
                IF res.ret = Ok THEN res.rec ELSE cfg[p], tel[p])
    ELSE IF res.ret # Ok
    THEN Return(p, CallRecord(c, res.ret, None), cfg[p], tel[p])
    ELSE LET cl == Clients(Unwrap(res.rec), c.key, c.dsn)
         IN  IF cl.panic
             THEN Return(p, CallRecord(c, "panic", None), cfg[p], tel[p])
             ELSE Return(p, CallRecord(c, Ok, res.rec), cfg[p],
                         Some([config |-> Unwrap(res.rec),
                               posthog |-> cl.posthog,
                               sentry_guard |-> cl.sentry_guard]))

\* The context of a call of TelemetryConfig::new on path.
NewCtx(op, path, key, dsn) ==
    [IdleIo EXCEPT !.op = op, !.path = path, !.key = key, !.dsn = dsn,
                   !.pre = FileKind(fs[path])]

\* get_config_path panics: no home directory to derive the path from.
NewNoHome(p, op, key, dsn) ==
    /\ ~env.home
    /\ Return(p, [NoCall EXCEPT !.op = op, !.ret = "panic", !.key = key,
                                !.dsn = dsn],
              cfg[p], tel[p])
    /\ UNCHANGED <<fs, uuidCtr, clock, lastDone>>

\* config.rs 24-31: the file exists and is loaded.
NewLoad(p, c) ==
    /\ NewBranch(fs[c.path], env) = "load"
    /\ NewReturn(p, c, LoadResult(fs[c.path]))
    /\ UNCHANGED <<fs, uuidCtr, clock, lastDone>>

\* config.rs 33-41: not interactive.
NewDefault(p, c) ==
    /\ NewBranch(fs[c.path], env) = "default"
    /\ uuidCtr < MaxIds
    /\ \E t \in clock..MaxClock :
          /\ clock' = t
          /\ NewReturn(p, c, [ret |-> Ok,
                 rec |-> Some(TelemetryConfig(FALSE, Uuid(uuidCtr + 1), t,
                                              Some(c.path)))])
    /\ uuidCtr' = uuidCtr + 1
    /\ UNCHANGED <<fs, lastDone>>

\* config.rs 43-68: the prompt, the record, create_dir_all.
NewPrompt(p, c) ==
    /\ NewBranch(fs[c.path], env) = "prompt"
    /\ uuidCtr < MaxIds
    /\ uuidCtr' = uuidCtr + 1
    /\ \E answer \in Answers, t \in clock..MaxClock :
          LET config == TelemetryConfig(prompt_yes_no(answer), Uuid(uuidCtr + 1),
                                        t, Some(c.path))
              c2 == [c EXCEPT !.prompted = TRUE, !.rec = Some(config)]
          IN  /\ clock' = t
              /\ IF ~CanCreateDir(fs[c.path])
                 THEN /\ NewReturn(p, c2, [ret |-> ConfigError, rec |-> None])
                      /\ UNCHANGED fs
                 ELSE /\ fs' = [fs EXCEPT ![c.path] = CreateDirAll(@)]
                      /\ pc' = [pc EXCEPT ![p] = "create"]
                      /\ io' = [io EXCEPT ![p] = c2]
                      /\ UNCHANGED <<cfg, tel, hist>>
    /\ UNCHANGED lastDone

\* Process p, idle, makes its next call.
Call(p) ==
    /\ pc[p] = "idle"
    /\ calls < MaxCalls
    /\ calls' = calls + 1

NewCall(p, op, app, custom, key, dsn) ==
    /\ Call(p)
    /\ IF ~IsSome(custom) /\ ~env.home
       THEN NewNoHome(p, op, key, dsn)
       ELSE LET c == NewCtx(op, get_config_path(app, custom), key, dsn)
            IN  NewLoad(p, c) \/ NewDefault(p, c) \/ NewPrompt(p, c)

\* TelemetryConfig::new(app_name, custom_path)
ConfigNew(p) ==
    /\ \E app \in AppNames, custom \in CustomPaths :
          NewCall(p, "new", app, custom, None, None)
    /\ UNCHANGED <<env, kin, kout>>

\* The call returns res: update_consent to its caller, new as above.
PersistReturn(p, res) ==
    IF io[p].op = "update"
    THEN Return(p, CallRecord(io[p], res.ret, io[p].rec), cfg[p], tel[p])
    ELSE NewReturn(p, io[p], res)

\* config.rs 70-71 and 96-99: std::fs::File::create(path)
StepCreate(p) ==
    /\ pc[p] = "create"
    /\ IF CanCreate(fs[io[p].path])
       THEN /\ fs' = [fs EXCEPT ![io[p].path] = FileCreate(@)]
            /\ pc' = [pc EXCEPT ![p] = "write"]
            /\ UNCHANGED <<cfg, tel, hist, io>>
       ELSE /\ PersistReturn(p, [ret |-> ConfigError, rec |-> None])
            /\ UNCHANGED fs
    /\ UNCHANGED <<uuidCtr, clock, calls, lastDone, env, kin, kout>>

\* config.rs 73-76 and 101-107: the serializer writes its next token; after
\* the last one the call returns Ok.
StepWrite(p) ==
    /\ pc[p] = "write"
    /\ LET doc == Serialize(Unwrap(io[p].rec))
           off == io[p].off
       IN  /\ fs' = [fs EXCEPT ![io[p].path] = FileWrite(@, off, doc[off + 1])]
           /\ IF off + 1 < Len(doc)
              THEN /\ io' = [io EXCEPT ![p].off = off + 1]
                   /\ UNCHANGED <<cfg, tel, hist, pc, lastDone>>
              ELSE /\ PersistReturn(p, [ret |-> Ok, rec |-> io[p].rec])
                   /\ lastDone' = p
    /\ UNCHANGED <<uuidCtr, clock, calls, env, kin, kout>>

\* The write fails (the disk is full): the call returns ConfigError.
StepWriteFail(p) ==
    /\ pc[p] = "write"
    /\ PersistReturn(p, [ret |-> ConfigError, rec |-> None])
    /\ UNCHANGED <<fs, uuidCtr, clock, calls, lastDone, env, kin, kout>>

\* The process is killed inside a call that persists; a new one starts.
Crash(p) ==
    /\ pc[p] # "idle"
    /\ Return(p, [CallRecord(io[p], "crash", None) EXCEPT !.op = "crash"],
              None, None)
    /\ UNCHANGED <<fs, uuidCtr, clock, calls, lastDone, env, kin, kout>>

\* update_consent that saves the record before it sets the flag.
UpdateConsent_SaveBeforeSet(p) ==
    /\ Call(p)
    /\ IsSome(cfg[p])
    /\ \E enabled \in BOOLEAN :
          LET old == Unwrap(cfg[p])
              self == [old EXCEPT !.enabled = enabled]
          IN  IF IsSome(self.config_path)
              THEN /\ cfg' = [cfg EXCEPT ![p] = Some(self)]
                   /\ pc' = [pc EXCEPT ![p] = "create"]
                   /\ io' = [io EXCEPT ![p] =
                               [IdleIo EXCEPT !.op = "update",
                                    !.path = Unwrap(self.config_path),
                                    !.rec = Some(old), !.e = enabled,
                                    !.pre = FileKind(fs[Unwrap(self.config_path)])]]
                   /\ UNCHANGED <<tel, hist>>
              ELSE Return(p, [NoCall EXCEPT !.op = "update", !.ret = Ok,
                                  !.rec = Some(self), !.e = enabled],
                          Some(self), tel[p])
    /\ UNCHANGED <<fs, uuidCtr, clock, lastDone, env, kin, kout>>

\* TelemetryConfig::update_consent(&mut self, enabled)
UpdateConsent(p) ==
    /\ Call(p)
    /\ IsSome(cfg[p])
    /\ \E enabled \in BOOLEAN :
          LET self == [Unwrap(cfg[p]) EXCEPT !.enabled = enabled]
          IN  IF IsSome(self.config_path)
              THEN /\ cfg' = [cfg EXCEPT ![p] = Some(self)]
                   /\ pc' = [pc EXCEPT ![p] = "create"]
                   /\ io' = [io EXCEPT ![p] =
                               [IdleIo EXCEPT !.op = "update",
                                    !.path = Unwrap(self.config_path),
                                    !.rec = Some(self), !.e = enabled,
                                    !.pre = FileKind(fs[Unwrap(self.config_path)])]]
                   /\ UNCHANGED <<tel, hist>>
              ELSE Return(p, [NoCall EXCEPT !.op = "update", !.ret = Ok,
                                  !.rec = Some(self), !.e = enabled],
                          Some(self), tel[p])
    /\ UNCHANGED <<fs, uuidCtr, clock, lastDone, env, kin, kout>>

----------------------------------------------------------------------------
(* telemetry.rs: Telemetry::new, track_event, track_error                  *)

\* The credentials a caller may hand to Telemetry::new: <<key, DSN>>.
CredSamples ==
    {<<None, None>>,
     <<Some("phc_abc123"), Some("https://k@sentry.io/1")>>,
     <<Some("fake-key"), Some("fake-dsn")>>,
     <<None, Some("https://public@example.com/1")>>,
     <<Some("fake-key"), None>>}

\* Telemetry::new(app_name, posthog_key, sentry_dsn, custom_config_path)
TelemetryNew(p) ==
    /\ \E app \in AppNames, custom \in CustomPaths, cred \in CredSamples :
          NewCall(p, "telemetry", app, custom, cred[1], cred[2])
    /\ UNCHANGED <<env, kin, kout>>

\* track_event on facade t: [ret, fwd].  outcome is what the collaborator
\* does: "sent", or a failure of insert_prop or of capture.
TrackEventResult(t, outcome) ==
    IF ~t.config.enabled THEN [ret |-> Ok, fwd |-> "none"]
    ELSE IF IsSome(t.posthog)
    THEN CASE outcome = "insert_prop_err" -> [ret |-> SendError, fwd |-> "none"]
           [] outcome = "capture_err" -> [ret |-> SendError, fwd |-> "posthog"]
           [] OTHER -> [ret |-> Ok, fwd |-> "posthog"]
    ELSE [ret |-> Ok, fwd |-> "none"]

\* track_error on facade t: [ret, fwd].
TrackErrorResult(t) ==
    IF ~t.config.enabled THEN [ret |-> Ok, fwd |-> "none"]
    ELSE IF IsSome(t.sentry_guard) THEN [ret |-> Ok, fwd |-> "sentry"]
    ELSE [ret |-> Ok, fwd |-> "none"]

TrackRecord(op, t, r) ==
    [NoCall EXCEPT !.op = op, !.ret = r.ret, !.fwd = r.fwd,
                   !.on = t.config.enabled, !.key = t.posthog,
                   !.dsn = t.sentry_guard]

TrackEvent(p) ==
    /\ Call(p)
    /\ IsSome(tel[p])
    /\ \E outcome \in {"sent", "insert_prop_err", "capture_err"} :
          Return(p, TrackRecord("track_event", Unwrap(tel[p]),
                                TrackEventResult(Unwrap(tel[p]), outcome)),
                 cfg[p], tel[p])
    /\ UNCHANGED <<fs, uuidCtr, clock, lastDone, env, kin, kout>>

TrackError(p) ==
    /\ Call(p)
    /\ IsSome(tel[p])
    /\ Return(p, TrackRecord("track_error", Unwrap(tel[p]),
                             TrackErrorResult(Unwrap(tel[p]))),
              cfg[p], tel[p])
    /\ UNCHANGED <<fs, uuidCtr, clock, lastDone, env, kin, kout>>

----------------------------------------------------------------------------
(* The specification of one process using the crate                        *)

\* The process of the single-process specifications.
Main == CHOOSE p \in Procs : \A q \in Procs : p <= q

NoKeys == [with |-> None, env |-> None]

InitProcs ==
    /\ uuidCtr = 0
    /\ clock = 0
    /\ cfg = [p \in Procs |-> None]
    /\ tel = [p \in Procs |-> None]
    /\ hist = [p \in Procs |-> NoCall]
    /\ pc = [p \in Procs |-> "idle"]
    /\ io = [p \in Procs |-> IdleIo]
    /\ calls = 0
    /\ lastDone = 0

DefaultPath == get_config_path("anvil", None)

\* The environments the file-system states are all tried under.
EnvCore ==
    {BaseEnv,
     [BaseEnv EXCEPT !.vars = [NoVars EXCEPT !["CI"] = "unicode"]]}

\* The default path starts in fewer states than the custom path.
FsInit ==
    {f \in [Paths -> UNION {FsSamples(q) : q \in Paths}] :
        /\ f[CustomPath] \in FsSamples(CustomPath)
        /\ f[DefaultPath] \in {NoFile("exists"), NoFile("missing"),
               FileOf("rw", Serialize(OldRecord(FALSE, Some(DefaultPath))))}}

\* The file-system states every environment is tried under.
FsFew ==
    {[q \in Paths |-> NoFile("exists")],
     [q \in Paths |-> NoFile("missing")]}

Init ==
    /\ \/ env \in EnvSamples /\ fs \in FsFew
       \/ env \in EnvCore /\ fs \in FsInit
    /\ InitProcs
    /\ kin = <<None, None>>
    /\ kout = NoKeys

Next ==
    \/ ConfigNew(Main)
    \/ UpdateConsent(Main)
    \/ StepCreate(Main)
    \/ StepWrite(Main)
    \/ StepWriteFail(Main)
    \/ Crash(Main)

Spec == Init /\ [][Next]_vars

----------------------------------------------------------------------------
(* The specification of one process using the facade                       *)

InitFacade ==
    /\ env \in {BaseEnv, [BaseEnv EXCEPT !.stdout_tty = FALSE]}
    /\ fs \in {f \in [Paths -> UNION {FsSamples(q) : q \in Paths}] :
                 /\ f[CustomPath] \in
                       {NoFile("exists"), FileOf("rw", Garbage),
                        FileOf("rw", Serialize(OldRecord(TRUE, Some(CustomPath)))),
                        FileOf("rw", Serialize(OldRecord(FALSE, Some(CustomPath))))}
                 /\ f[DefaultPath] = NoFile("missing")}
    /\ InitProcs
    /\ kin = <<None, None>>
    /\ kout = NoKeys

NextFacade ==
    \/ TelemetryNew(Main)
    \/ TrackEvent(Main)
    \/ TrackError(Main)
    \/ StepCreate(Main)
    \/ StepWrite(Main)
    \/ StepWriteFail(Main)

SpecFacade == InitFacade /\ [][NextFacade]_vars

----------------------------------------------------------------------------
(* The specification of the key provider: both constructors on one input   *)

KeyInputs == {None, Some(""), Some("  "), Some("phc_abc123"), Some("abc123"),
              Some(" phc_abc123")}
DsnInputs == {None, Some(""), Some(" \t"), Some("https://x@sentry.io/1"),
              Some("ftp://x"), Some("https://x@other.io/1"),
              Some("ftp://x@sentry.io/1")}

InitKeys ==
    /\ env = BaseEnv
    /\ fs = [q \in Paths |-> NoFile("exists")]
    /\ InitProcs
    /\ kin \in KeyInputs \X DsnInputs
    /\ kout = NoKeys

\* TelemetryKeys::with_keys(kin)
ApplyWithKeys ==
    /\ ~IsSome(kout.with)
    /\ kout' = [kout EXCEPT !.with = Some(with_keys(kin[1], kin[2]))]
    /\ UNCHANGED <<env, fs, uuidCtr, clock, cfg, tel, hist, pc, io, calls,
                   lastDone, kin>>

\* TelemetryKeys::new() with ANVIL_POSTHOG_KEY, ANVIL_SENTRY_DSN = kin
ApplyNew ==
    /\ ~IsSome(kout.env)
    /\ kout' = [kout EXCEPT !.env = Some(TelemetryKeys_new(kin[1], kin[2]))]
    /\ UNCHANGED <<env, fs, uuidCtr, clock, cfg, tel, hist, pc, io, calls,
                   lastDone, kin>>

NextKeys ==
    \/ ApplyWithKeys
    \/ ApplyNew

SpecKeys == InitKeys /\ [][NextKeys]_vars

----------------------------------------------------------------------------
(* The specification of processes that persist records concurrently        *)

InitRace ==
    /\ env = BaseEnv
    /\ fs \in {f \in [Paths -> UNION {FsSamples(q) : q \in Paths}] :
                 /\ f[CustomPath] \in
                       {NoFile("exists"), NoFile("missing"),
                        FileOf("rw", Serialize(OldRecord(FALSE, Some(CustomPath))))}
                 /\ f[DefaultPath] = NoFile("exists")}
    /\ InitProcs
    /\ kin = <<None, None>>
    /\ kout = NoKeys

NextRace ==
    \E p \in Procs :
        \/ ConfigNew(p)
        \/ UpdateConsent(p)
        \/ StepCreate(p)
        \/ StepWrite(p)

SpecRace == InitRace /\ [][NextRace]_vars

----------------------------------------------------------------------------
(* The claims                                                              *)

\* In this step process p calls TelemetryConfig::new on path q: the call
\* returns at once, or goes on to persist the record it made.
NewCallStep(p, q) ==
    /\ pc[p] = "idle"
    /\ calls' = calls + 1
    /\ \/ /\ pc'[p] = "idle"
          /\ hist'[p].seq # hist[p].seq
          /\ hist'[p].op = "new"
          /\ hist'[p].path = q
       \/ /\ pc'[p] = "create"
          /\ io'[p].op = "new"
          /\ io'[p].path = q

\* The record process p's last call gave.
Rec(p) == Unwrap(hist[p].rec)

\* C1: TelemetryConfig::new called twice in succession on the same path, the
\* first call having returned a record: the second call returns a record with
\* the same instance_id and created_at and has not prompted, whatever the
\* first-run mode.
C1_IdempotentReuse ==
    [][\A p \in Procs :
         (/\ hist[p].op = "new"
          /\ hist[p].ret = Ok
          /\ NewCallStep(p, hist[p].path))
         => /\ pc'[p] = "idle"
            /\ hist'[p].ret = Ok
            /\ ~hist'[p].prompted
            /\ Unwrap(hist'[p].rec).instance_id = Rec(p).instance_id
            /\ Unwrap(hist'[p].rec).created_at = Rec(p).created_at]_vars

\* The part of C1 the code keeps: the second call returns the same record
\* when the first one loaded the record from the file or persisted it after
\* the prompt.
ReuseWhenPersisted ==
    [][\A p \in Procs :
         (/\ hist[p].op = "new"
          /\ hist[p].ret = Ok
          /\ (hist[p].pre # "absent" \/ hist[p].prompted)
          /\ NewCallStep(p, hist[p].path))
         => /\ pc'[p] = "idle"
            /\ hist'[p].ret = Ok
            /\ ~hist'[p].prompted
            /\ Unwrap(hist'[p].rec).instance_id = Rec(p).instance_id
            /\ Unwrap(hist'[p].rec).created_at = Rec(p).created_at]_vars

\* C2: a facade whose record is disabled has neither client, and every
\* track_event and track_error on such a facade returned Ok and forwarded
\* nothing.
C2_DisabledIsNoOp ==
    \A p \in Procs :
        /\ (IsSome(tel[p]) /\ ~Unwrap(tel[p]).config.enabled)
              => /\ ~IsSome(Unwrap(tel[p]).posthog)
                 /\ ~IsSome(Unwrap(tel[p]).sentry_guard)
        /\ (hist[p].op \in {"track_event", "track_error"} /\ ~hist[p].on)
              => /\ hist[p].ret = Ok
                 /\ hist[p].fwd = "none"

\* A track_event on a facade with a disabled record has returned.
C2_Witness ==
    \E p \in Procs :
        /\ hist[p].op = "track_event"
        /\ ~hist[p].on
        /\ IsSome(tel[p])
        /\ ~Unwrap(tel[p]).config.enabled

\* The process is not interactive in the sense of the claim: standard input
\* or output is no terminal, or one of the CI variables is set.
NotInteractive(e) ==
    \/ ~e.stdin_tty
    \/ ~e.stdout_tty
    \/ \E v \in CIVars : e.vars[v] # "unset"

\* C3: in a process that is not interactive, TelemetryConfig::new on a path
\* with no file returns a record with enabled = false and never prompts.
C3_NonInteractiveDefault ==
    \A p \in Procs :
        NotInteractive(env) =>
            /\ ~io[p].prompted
            /\ (hist[p].op = "new" /\ hist[p].path # "" /\ hist[p].pre = "absent")
                  => /\ hist[p].ret = Ok
                     /\ ~Rec(p).enabled
                     /\ ~hist[p].prompted

\* The part of C3 the code keeps: the same, for a process whose standard
\* input or output is no terminal or that has a CI variable whose value is
\* valid Unicode.
DefaultWhenNotInteractive ==
    \A p \in Procs :
        ~is_interactive(env) =>
            /\ ~io[p].prompted
            /\ (hist[p].op = "new" /\ hist[p].path # "" /\ hist[p].pre = "absent")
                  => /\ hist[p].ret = Ok
                     /\ ~Rec(p).enabled
                     /\ ~hist[p].prompted

\* C4: after update_consent(e) has returned Ok on a record with a path, the
\* record in memory has enabled = e, and TelemetryConfig::new on that path,
\* called next, returns a record with enabled = e.
C4_UpdateConsentPersists ==
    \A p \in Procs :
        /\ (pc[p] = "idle" /\ hist[p].op = "update" /\ hist[p].path # ""
               /\ hist[p].ret = Ok)
              => /\ IsSome(cfg[p])
                 /\ Unwrap(cfg[p]).enabled = hist[p].e
        /\ (hist[p].op = "new" /\ IsSome(hist[p].after)
               /\ Unwrap(hist[p].after).path = hist[p].path)
              => /\ hist[p].ret = Ok
                 /\ Rec(p).enabled = Unwrap(hist[p].after).e

\* update_consent(true) returned Ok on a record whose file held enabled =
\* false or did not exist, and the next TelemetryConfig::new on its path has
\* returned.
C4_Witness ==
    \E p \in Procs :
        /\ hist[p].op = "new"
        /\ hist[p].ret = Ok
        /\ IsSome(hist[p].after)
        /\ Unwrap(hist[p].after) = [path |-> hist[p].path, e |-> TRUE]
        /\ Rec(p).instance_id # "uuid-0"

C6_InvalidCredentialsRejected ==
    \A p \in Procs :
        IsSome(tel[p]) =>
            LET t == Unwrap(tel[p])
            IN  /\ IsSome(t.posthog) => ValidPosthogKey(Unwrap(t.posthog))
                /\ IsSome(t.sentry_guard) => ValidSentryDsn(Unwrap(t.sentry_guard))

\* C7: update_consent on a record with a path creates a missing parent
\* directory: after it has returned, the directory is not left missing where
\* it could have been created (and the call then fails only if the write does).
C7_DirectoryCreated ==
    \A p \in Procs :
        (pc[p] = "idle" /\ hist[p].op = "update" /\ hist[p].path # "")
            => fs[hist[p].path].dir # "missing"

\* C8: a process killed inside a call that writes the record to a path which
\* held a valid record leaves a valid record at that path.
C8_CrashSafe ==
    \A p \in Procs :
        (pc[p] = "idle" /\ hist[p].op = "crash" /\ hist[p].pre = "valid")
            => FileKind(fs[hist[p].path]) = "valid"

\* C9: with_keys(p, s) and TelemetryKeys::new under ANVIL_POSTHOG_KEY = p,
\* ANVIL_SENTRY_DSN = s give the same outcome.
C9_SameValidation ==
    (IsSome(kout.with) /\ IsSome(kout.env)) => kout.with = kout.env

\* The last call of process p wrote a record and returned Ok.
Persisted(p) ==
    /\ hist[p].ret = Ok
    /\ \/ hist[p].op = "update" /\ hist[p].path # ""
       \/ hist[p].op = "new" /\ hist[p].prompted

\* C10: once every process has finished writing its record, the file holds
\* exactly the record of the process whose write finished last.
C10_LastWriterWins ==
    (/\ lastDone # 0
     /\ \A p \in Procs : pc[p] = "idle"
     /\ \A p \in Procs : hist[p].op # "none" => Persisted(p)
     /\ Persisted(lastDone))
    => Content(fs[hist[lastDone].path]) = Serialize(Rec(lastDone))

====
